---------------------------- MODULE Spec2Model ----------------------------
(***************************************************************************)
(* insights-results-aggregator: the Kafka consumer (consumer/consumer.go)  *)
(* as it is driven by startConsumer (aggregator.go).                       *)
(*                                                                         *)
(* JSON strings are sequences of one-character strings, so that syntactic  *)
(* checks on them (UUID syntax) are computed and not looked up.            *)
(***************************************************************************)
EXTENDS Integers, Sequences, FiniteSets, TLC

VARIABLES
    pc,           \* position of the process inside startConsumer / New / Start
    storageOpen,  \* number of storage handles opened and not closed
    connOpen,     \* number of sarama.Consumer (broker connections) open
    subOpen,      \* number of sarama.PartitionConsumer (subscriptions) open
    newIn,        \* what the broker library answered to New's three calls
    newRet,       \* how New ended: [consumer, err] returned, or panic
    msg,          \* Start's local variable msg
    consumed,     \* Start's local counter
    streamEnded,  \* the Messages() channel has been closed
    delivered,    \* payloads the subscription delivered, in delivery order
    processed,    \* one entry per ProcessMessage call that returned: [Offset, err]
    writes,       \* one entry per Storage.WriteReportForCluster call, in call order
    closeCalls,   \* the resource Close calls Impl.Close made, in call order
    closeRet,     \* what Impl.Close returned
    exitStatus,   \* the status the process ended with
    flags,        \* main's command line flags: [produce, consumer, server]
    fatal,        \* the error handed to log.Fatal
    lastRequest,  \* the router parameters of the request served last
    helper,       \* the parameter helper called last: [name, paramName]
    outcome       \* what that helper wrote to the response and returned

serverVars == <<lastRequest, helper, outcome>>

vars == <<pc, storageOpen, connOpen, subOpen, newIn, newRet, msg, consumed,
          streamEnded, delivered, processed, writes, closeCalls, closeRet,
          exitStatus, flags, fatal, lastRequest, helper, outcome>>

(***************************************************************************)
(* Bounds                                                                  *)
(***************************************************************************)
\* messages delivered in one run of the loop
MaxMsgs == 3
\* messages delivered in the run that draws from every payload shape
MaxWide == 1
\* partitions the broker may report for the topic
MaxPartitions == 2

(***************************************************************************)
(* Strings                                                                 *)
(***************************************************************************)
Rep(c, n) == [i \in 1..n |-> c]

HexDigits == {"0", "1", "2", "3", "4", "5", "6", "7", "8", "9",
              "a", "b", "c", "d", "e", "f", "A", "B", "C", "D", "E", "F"}

\* "aaaaaaaa-bbbb-cccc-dddd-000000000000", the cluster of aggregator.go's test message
ClusterA == Rep("a", 8) \o <<"-">> \o Rep("b", 4) \o <<"-">> \o Rep("c", 4)
            \o <<"-">> \o Rep("d", 4) \o <<"-">> \o Rep("0", 12)
\* "aaaaaaaa-bbbb-cccc-dddd-111111111111"
ClusterB == Rep("a", 8) \o <<"-">> \o Rep("b", 4) \o <<"-">> \o Rep("c", 4)
            \o <<"-">> \o Rep("d", 4) \o <<"-">> \o Rep("1", 12)
\* "not-a-uuid"
NotAUUID == <<"n", "o", "t", "-", "a", "-", "u", "u", "i", "d">>
\* "{}"
ReportA == <<"{", "}">>
\* "{1}"
ReportB == <<"{", "1", "}">>

ToLower(c) == CASE c = "U" -> "u" [] c = "R" -> "r" [] c = "N" -> "n"
                [] c = "I" -> "i" [] c = "D" -> "d" [] OTHER -> c

IsHexPair(s, x) == s[x] \in HexDigits /\ s[x + 1] \in HexDigits

\* the 36 characters xxxxxxxx-xxxx-xxxx-xxxx-xxxxxxxxxxxx (1-based positions)
CanonicalUUID(s) ==
    /\ s[9] = "-" /\ s[14] = "-" /\ s[19] = "-" /\ s[24] = "-"
    /\ \A x \in {1, 3, 5, 7, 10, 12, 15, 17, 20, 22, 25, 27, 29, 31, 33, 35} :
           IsHexPair(s, x)

\* uuid.Parse(s) returns no error
ParseUUID(s) ==
    CASE Len(s) = 36 -> CanonicalUUID(s)
      [] Len(s) = 36 + 9 ->
             /\ [i \in 1..9 |-> ToLower(s[i])]
                    = <<"u", "r", "n", ":", "u", "u", "i", "d", ":">>
             /\ CanonicalUUID(SubSeq(s, 10, 45))
      [] Len(s) = 36 + 2 -> CanonicalUUID(SubSeq(s, 2, 37))
      [] Len(s) = 32 -> \A i \in 1..16 : IsHexPair(s, 2 * i - 1)
      [] OTHER -> FALSE

(***************************************************************************)
(* JSON payloads                                                           *)
(***************************************************************************)
JAbsent == [t |-> "absent", n |-> 0, s |-> <<>>]
JNull == [t |-> "null", n |-> 0, s |-> <<>>]
JNum(k) == [t |-> "num", n |-> k, s |-> <<>>]
JStr(x) == [t |-> "str", n |-> 0, s |-> x]

\* top: "garbage" (not JSON), "null", "array" or "object"; the three members
\* are read only when top = "object"
JObject(o, c, r) == [top |-> "object", OrgID |-> o, ClusterName |-> c, Report |-> r]
JTop(k) == [top |-> k, OrgID |-> JAbsent, ClusterName |-> JAbsent, Report |-> JAbsent]

\* {"OrgID":1,"ClusterName":"aaaaaaaa-bbbb-cccc-dddd-000000000000","Report":"{}"}
testMessage == JObject(JNum(1), JStr(ClusterA), JStr(ReportA))

OrgValues == {JAbsent, JNull, JNum(0), JNum(1), JNum(2), JStr(ReportA)}
ClusterValues == {JAbsent, JNull, JStr(ClusterA), JStr(ClusterB), JStr(NotAUUID), JNum(1)}
ReportValues == {JAbsent, JNull, JStr(ReportA), JStr(ReportB), JNum(1)}

\* every payload shape
AllPayloads ==
    {JTop("garbage"), JTop("null"), JTop("array")}
        \cup {JObject(o, c, r) : o \in OrgValues, c \in ClusterValues, r \in ReportValues}

\* the payloads of the long runs
SamplePayloads ==
    { testMessage,
      JObject(JNum(2), JStr(ClusterB), JStr(ReportB)),
      JObject(JNum(0), JStr(NotAUUID), JStr(ReportA)),
      JObject(JAbsent, JStr(ClusterA), JStr(ReportA)),
      JObject(JNum(1), JStr(ClusterA), JAbsent),
      JObject(JNull, JStr(ClusterA), JStr(ReportA)),
      JObject(JStr(ReportA), JAbsent, JStr(ReportA)),
      JTop("garbage") }

(***************************************************************************)
(* json.Unmarshal into incomingMessage                                     *)
(***************************************************************************)
NilPtr == [isNil |-> TRUE, n |-> 0, s |-> <<>>]

\* one member decoded into a pointer field whose element has JSON type want
DecodeField(v, want) ==
    IF v.t = want THEN [isNil |-> FALSE, n |-> v.n, s |-> v.s] ELSE NilPtr

\* the member has a value that cannot be stored in a field of JSON type want
FieldMismatch(v, want) == v.t \notin {"absent", "null", want}

Unmarshal(p) ==
    CASE p.top = "garbage" ->
             [err |-> "SyntaxError", Organization |-> NilPtr,
              ClusterName |-> NilPtr, Report |-> NilPtr]
      [] p.top = "array" ->
             [err |-> "UnmarshalTypeError", Organization |-> NilPtr,
              ClusterName |-> NilPtr, Report |-> NilPtr]
      [] p.top = "null" ->
             [err |-> "nil", Organization |-> NilPtr,
              ClusterName |-> NilPtr, Report |-> NilPtr]
      [] OTHER ->
             [err |-> IF \/ FieldMismatch(p.OrgID, "num")
                         \/ FieldMismatch(p.ClusterName, "str")
                         \/ FieldMismatch(p.Report, "str")
                      THEN "UnmarshalTypeError" ELSE "nil",
              Organization |-> DecodeField(p.OrgID, "num"),
              ClusterName |-> DecodeField(p.ClusterName, "str"),
              Report |-> DecodeField(p.Report, "str")]


(***************************************************************************)
(* consumer.go                                                             *)
(***************************************************************************)
ParseFailure(e) == [org |-> 0, cluster |-> <<>>, report |-> <<>>, err |-> e]

\* parseMessage without its check of Report
parseMessageNoReportCheck(messageValue) ==
    LET deserialized == Unmarshal(messageValue) IN
    IF deserialized.err # "nil" THEN ParseFailure(deserialized.err)
    ELSE IF deserialized.Organization.isNil
        THEN ParseFailure("Missing required attribute 'OrgID'")
    ELSE IF deserialized.ClusterName.isNil
        THEN ParseFailure("Missing required attribute 'ClusterName'")
    ELSE [org |-> deserialized.Organization.n,
          cluster |-> deserialized.ClusterName.s,
          report |-> deserialized.Report.s,
          err |-> "nil"]

\* parseMessage checking the presence of the fields before the decoder's error
parseMessagePresenceFirst(messageValue) ==
    LET deserialized == Unmarshal(messageValue) IN
    IF deserialized.Organization.isNil
        THEN ParseFailure("Missing required attribute 'OrgID'")
    ELSE IF deserialized.ClusterName.isNil
        THEN ParseFailure("Missing required attribute 'ClusterName'")
    ELSE IF deserialized.Report.isNil
        THEN ParseFailure("Missing required attribute 'Report'")
    ELSE IF deserialized.err # "nil" THEN ParseFailure(deserialized.err)
    ELSE [org |-> deserialized.Organization.n,
          cluster |-> deserialized.ClusterName.s,
          report |-> deserialized.Report.s,
          err |-> "nil"]

\* parseMessage checking the three fields in the opposite order
parseMessageReportFirst(messageValue) ==
    LET deserialized == Unmarshal(messageValue) IN
    IF deserialized.err # "nil" THEN ParseFailure(deserialized.err)
    ELSE IF deserialized.Report.isNil
        THEN ParseFailure("Missing required attribute 'Report'")
    ELSE IF deserialized.ClusterName.isNil
        THEN ParseFailure("Missing required attribute 'ClusterName'")
    ELSE IF deserialized.Organization.isNil
        THEN ParseFailure("Missing required attribute 'OrgID'")
    ELSE [org |-> deserialized.Organization.n,
          cluster |-> deserialized.ClusterName.s,
          report |-> deserialized.Report.s,
          err |-> "nil"]

parseMessage(messageValue) ==
    LET deserialized == Unmarshal(messageValue) IN
    IF deserialized.err # "nil" THEN ParseFailure(deserialized.err)
    ELSE IF deserialized.Organization.isNil
        THEN ParseFailure("Missing required attribute 'OrgID'")
    ELSE IF deserialized.ClusterName.isNil
        THEN ParseFailure("Missing required attribute 'ClusterName'")
    ELSE IF deserialized.Report.isNil
        THEN ParseFailure("Missing required attribute 'Report'")
    ELSE [org |-> deserialized.Organization.n,
          cluster |-> deserialized.ClusterName.s,
          report |-> deserialized.Report.s,
          err |-> "nil"]

\* a *sarama.ConsumerMessage; msg = nil is NilMsg
NilMsg == [isNil |-> TRUE, Offset |-> 0, Value |-> JTop("garbage")]
Message(offset, value) == [isNil |-> FALSE, Offset |-> offset, Value |-> value]

WriteCall(m, parsed, writeErr) ==
    [Offset |-> m.Offset, org |-> parsed.org, cluster |-> parsed.cluster,
     report |-> parsed.report, err |-> writeErr]

\* ProcessMessage returning after the parse, without the storage write
ProcessMessageNoWrite(m, writeErr) ==
    IF m.isNil THEN [panic |-> TRUE, err |-> "nil", calls |-> <<>>]
    ELSE [panic |-> FALSE, err |-> parseMessage(m.Value).err, calls |-> <<>>]

\* ProcessMessage skipping the write of a record that was already written
ProcessMessageDedup(m, writeErr) ==
    IF m.isNil THEN [panic |-> TRUE, err |-> "nil", calls |-> <<>>]
    ELSE LET parsed == parseMessage(m.Value) IN
         IF parsed.err # "nil"
         THEN [panic |-> FALSE, err |-> parsed.err, calls |-> <<>>]
         ELSE IF \E i \in 1..Len(writes) :
                     /\ writes[i].org = parsed.org
                     /\ writes[i].cluster = parsed.cluster
                     /\ writes[i].report = parsed.report
         THEN [panic |-> FALSE, err |-> "nil", calls |-> <<>>]
         ELSE [panic |-> FALSE, err |-> writeErr,
               calls |-> <<WriteCall(m, parsed, writeErr)>>]

\* writeErr is what Storage.WriteReportForCluster answers if it is called.
\* panic: msg.Offset of a nil msg; calls: the storage writes made, in order.
ProcessMessage(m, writeErr) ==
    IF m.isNil THEN [panic |-> TRUE, err |-> "nil", calls |-> <<>>]
    ELSE LET parsed == parseMessage(m.Value) IN
         IF parsed.err # "nil"
         THEN [panic |-> FALSE, err |-> parsed.err, calls |-> <<>>]
         ELSE [panic |-> FALSE, err |-> writeErr,
               calls |-> <<WriteCall(m, parsed, writeErr)>>]

\* in: [connErr, partitions, partsErr, subErr], the answers of sarama.NewConsumer,
\* c.Partitions and c.ConsumePartition. conn, sub: what New leaves open.
\* panic: partitions[0] of an empty list.
New(in) ==
    IF in.connErr # "nil"
    THEN [panic |-> FALSE, consumer |-> "nil", err |-> in.connErr, conn |-> 0, sub |-> 0]
    ELSE IF in.partsErr # "nil"
    THEN [panic |-> FALSE, consumer |-> "nil", err |-> in.partsErr, conn |-> 1, sub |-> 0]
    ELSE IF Len(in.partitions) = 0
    THEN [panic |-> TRUE, consumer |-> "nil", err |-> "nil", conn |-> 1, sub |-> 0]
    ELSE IF in.subErr # "nil"
    THEN [panic |-> FALSE, consumer |-> "nil", err |-> in.subErr, conn |-> 1, sub |-> 0]
    ELSE [panic |-> FALSE, consumer |-> "Impl", err |-> "nil", conn |-> 1, sub |-> 1]

\* Close that goes on to close the connection when the subscription's close failed
CloseBoth(subErr, connErr) ==
    [calls |-> <<[res |-> "PartitionConsumer", err |-> subErr],
                 [res |-> "Consumer", err |-> connErr]>>,
     ret |-> IF subErr # "nil" THEN subErr ELSE connErr]

\* subErr, connErr: what PartitionConsumer.Close and Consumer.Close answer if called
Close(subErr, connErr) ==
    IF subErr # "nil"
    THEN [calls |-> <<[res |-> "PartitionConsumer", err |-> subErr]>>, ret |-> subErr]
    ELSE [calls |-> <<[res |-> "PartitionConsumer", err |-> subErr],
                      [res |-> "Consumer", err |-> connErr]>>,
          ret |-> connErr]

(***************************************************************************)
(* What the broker library and the storage may answer                     *)
(***************************************************************************)
PartitionLists == {[i \in 1..n |-> i - 1] : n \in 0..MaxPartitions}

NewInputs ==
    {[connErr |-> "ErrOutOfBrokers", partitions |-> <<>>, partsErr |-> "nil", subErr |-> "nil"]}
    \cup {[connErr |-> "nil", partitions |-> <<>>, partsErr |-> "ErrUnknownTopicOrPartition",
           subErr |-> "nil"]}
    \cup {[connErr |-> "nil", partitions |-> ps, partsErr |-> "nil", subErr |-> e] :
              ps \in PartitionLists, e \in {"nil", "ConsumePartitionError"}}

\* New has not been called
NoNewInput == [connErr |-> "none", partitions |-> <<>>, partsErr |-> "none", subErr |-> "none"]

WriteOutcomes == {"nil", "StorageError"}
SubCloseOutcomes == {"nil", "SubCloseError"}
ConnCloseOutcomes == {"nil", "ConnCloseError"}

\* os.Exit(1) of log.Fatal
LogFatalStatus == 1
\* the exit status of a Go program that ends in an unrecovered panic
PanicStatus == 2
\* no exit yet
Running == 0 - 1

ExitStatusOK == 0
ExitStatusNoCommand == 1
ExitStatusProducerError == 2
ExitStatusConsumerError == 3
ExitStatusServerError == 4

(***************************************************************************)
(* The router parameters of a request (server package)                     *)
(***************************************************************************)
Digits == {"0", "1", "2", "3", "4", "5", "6", "7", "8", "9"}

DigitVal(c) ==
    CASE c = "0" -> 0 [] c = "1" -> 1 [] c = "2" -> 2 [] c = "3" -> 3 [] c = "4" -> 4
      [] c = "5" -> 5 [] c = "6" -> 6 [] c = "7" -> 7 [] c = "8" -> 8 [] c = "9" -> 9

RECURSIVE StripZeros(_)
StripZeros(ds) ==
    IF Len(ds) > 1 /\ ds[1] = "0" THEN StripZeros(Tail(ds)) ELSE ds

\* the number written by the digits ds is greater than the one written by
\* lim; neither has a leading zero
RECURSIVE DigitsGreater(_, _)
DigitsGreater(ds, lim) ==
    IF Len(ds) # Len(lim) THEN Len(ds) > Len(lim)
    ELSE IF Len(ds) = 0 THEN FALSE
    ELSE IF ds[1] # lim[1] THEN DigitVal(ds[1]) > DigitVal(lim[1])
    ELSE DigitsGreater(Tail(ds), Tail(lim))

\* the value of a string of digits (the strings of this model stay far below
\* the 64 bits of the result)
RECURSIVE DigitsValue(_)
DigitsValue(ds) ==
    IF Len(ds) = 0 THEN 0
    ELSE 10 * DigitsValue(SubSeq(ds, 1, Len(ds) - 1)) + DigitVal(ds[Len(ds)])

\* "9223372036854775807", 1<<63 - 1
MaxInt64Digits ==
    <<"9", "2", "2", "3", "3", "7", "2", "0", "3", "6",
      "8", "5", "4", "7", "7", "5", "8", "0", "7">>
\* "9223372036854775808", 1<<63
MinInt64Digits ==
    <<"9", "2", "2", "3", "3", "7", "2", "0", "3", "6",
      "8", "5", "4", "7", "7", "5", "8", "0", "8">>

\* strconv.ParseInt(s, 10, 64): [value, err], err "nil", "ErrSyntax" or "ErrRange"
ParseInt(s) ==
    IF Len(s) = 0 THEN [value |-> 0, err |-> "ErrSyntax"]
    ELSE LET neg == s[1] = "-"
             ds == IF s[1] \in {"+", "-"} THEN Tail(s) ELSE s
         IN  IF Len(ds) = 0 \/ \E i \in 1..Len(ds) : ds[i] \notin Digits
             THEN [value |-> 0, err |-> "ErrSyntax"]
             ELSE IF DigitsGreater(StripZeros(ds),
                                   IF neg THEN MinInt64Digits ELSE MaxInt64Digits)
             THEN [value |-> 0, err |-> "ErrRange"]
             ELSE [value |-> IF neg THEN 0 - DigitsValue(ds) ELSE DigitsValue(ds),
                   err |-> "nil"]

\* errors: kind is "nil" (no error), "RouterMissingParamError",
\* "RouterParsingError" or "errorString" (errors.New). paramValue of a
\* RouterParsingError is the string raw, or the integer int when valueIsInt.
\* An errorString has a message, followed by the Error() of cause when the
\* other fields are those of an error.
NoError ==
    [kind |-> "nil", message |-> "", cause |-> "nil", paramName |-> "",
     raw |-> <<>>, int |-> 0, valueIsInt |-> FALSE, errString |-> ""]

RouterMissingParamError(paramName) ==
    [NoError EXCEPT !.kind = "RouterMissingParamError", !.paramName = paramName]

RouterParsingError(paramName, raw, int, valueIsInt, errString) ==
    [NoError EXCEPT !.kind = "RouterParsingError", !.paramName = paramName,
                    !.raw = raw, !.int = int, !.valueIsInt = valueIsInt,
                    !.errString = errString]

\* errors.New(message), and errors.New(message + err.Error())
ErrorsNew(message) == [NoError EXCEPT !.kind = "errorString", !.message = message]
ErrorsNewWith(message, err) ==
    [err EXCEPT !.kind = "errorString", !.message = message, !.cause = err.kind]

\* mux.Vars(request): each parameter of the model is found, with a value, or not
GetRouterParam(request, paramName) ==
    IF paramName \in DOMAIN request /\ request[paramName].found
    THEN [value |-> request[paramName].value, err |-> NoError]
    ELSE [value |-> <<>>, err |-> RouterMissingParamError(paramName)]

GetRouterIntParam(request, paramName) ==
    LET got == GetRouterParam(request, paramName) IN
    IF got.err # NoError THEN [value |-> 0, err |-> got.err]
    ELSE LET parsed == ParseInt(got.value) IN
         IF parsed.err # "nil"
         THEN [value |-> 0,
               err |-> RouterParsingError(paramName, got.value, 0, FALSE,
                                          "integer expected")]
         ELSE [value |-> parsed.value, err |-> NoError]

\* GetRouterPositiveIntParam refusing only the negative values
GetRouterNonNegativeIntParam(request, paramName) ==
    LET got == GetRouterIntParam(request, paramName) IN
    IF got.err # NoError THEN [value |-> 0, err |-> got.err]
    ELSE IF got.value < 0
    THEN [value |-> 0,
          err |-> RouterParsingError(paramName, <<>>, got.value, TRUE,
                                     "positive integer expected")]
    ELSE [value |-> got.value, err |-> NoError]

GetRouterPositiveIntParam(request, paramName) ==
    LET got == GetRouterIntParam(request, paramName) IN
    IF got.err # NoError THEN [value |-> 0, err |-> got.err]
    ELSE IF got.value <= 0
    THEN [value |-> 0,
          err |-> RouterParsingError(paramName, <<>>, got.value, TRUE,
                                     "positive integer expected")]
    ELSE [value |-> got.value, err |-> NoError]

StatusBadRequest == 400
StatusInternalServerError == 500

\* what a handler helper did: the responses it wrote, in order, and what it
\* returned (int for an OrgID, str for a ClusterName)
Response(status, message, err) == [status |-> status, message |-> message, err |-> err]
Outcome(sent, int, str, err) == [sent |-> sent, int |-> int, str |-> str, err |-> err]

\* readClusterName answering a badly formed cluster name with a client error
readClusterNameBadRequest(request) ==
    IF ~("cluster" \in DOMAIN request /\ request["cluster"].found)
    THEN Outcome(<<Response(StatusInternalServerError,
                            "Cluster name is not provided", NoError)>>,
                 0, <<>>, ErrorsNew("Cluster name is not provided"))
    ELSE IF ~ParseUUID(request["cluster"].value)
    THEN Outcome(<<Response(StatusBadRequest,
                            "Cluster name format is invalid", NoError)>>,
                 0, <<>>, ErrorsNew("Cluster name format is invalid"))
    ELSE Outcome(<<>>, 0, request["cluster"].value, NoError)

readClusterName(request) ==
    IF ~("cluster" \in DOMAIN request /\ request["cluster"].found)
    THEN Outcome(<<Response(StatusInternalServerError,
                            "Cluster name is not provided", NoError)>>,
                 0, <<>>, ErrorsNew("Cluster name is not provided"))
    ELSE IF ~ParseUUID(request["cluster"].value)
    THEN Outcome(<<Response(StatusInternalServerError,
                            "Cluster name format is invalid", NoError)>>,
                 0, <<>>, ErrorsNew("Cluster name format is invalid"))
    ELSE Outcome(<<>>, 0, request["cluster"].value, NoError)

\* readOrganizationID without the test of the error's type
readOrganizationIDServerError(request) ==
    LET got == GetRouterPositiveIntParam(request, "organization") IN
    IF got.err # NoError
    THEN Outcome(<<Response(StatusInternalServerError, "", got.err)>>,
                 0, <<>>,
                 ErrorsNewWith("Error getting organization ID from request ", got.err))
    ELSE Outcome(<<>>, got.value, <<>>, NoError)

readOrganizationID(request) ==
    LET got == GetRouterPositiveIntParam(request, "organization") IN
    IF got.err # NoError
    THEN Outcome(<<Response(IF got.err.kind = "RouterParsingError"
                            THEN StatusBadRequest
                            ELSE StatusInternalServerError,
                            "", got.err)>>,
                 0, <<>>,
                 ErrorsNewWith("Error getting organization ID from request ", got.err))
    ELSE Outcome(<<>>, got.value, <<>>, NoError)

\* the parameters a route may hand to the helpers
NotFound == [found |-> FALSE, value |-> <<>>]
Found(v) == [found |-> TRUE, value |-> v]

OrganizationValues ==
    { <<"4", "2">>, <<"1">>, <<"0">>, <<"-", "5">>, <<"a", "b", "c">>, <<>>,
      <<"+", "7">>, <<"0", "0", "7">>, <<"-", "0">>, <<"1", "2", "a">>, <<"-">>,
      MinInt64Digits }

ClusterNames ==
    { ClusterA, ClusterB, NotAUUID, <<>>,
      <<"{">> \o ClusterA \o <<"}">>,
      <<"u", "r", "n", ":", "u", "u", "i", "d", ":">> \o ClusterB,
      Rep("A", 32),
      Rep("a", 36),
      Rep("g", 8) \o SubSeq(ClusterA, 9, 36) }

Requests ==
    {[organization |-> o, cluster |-> c] :
        o \in {NotFound} \cup {Found(v) : v \in OrganizationValues},
        c \in {NotFound} \cup {Found(v) : v \in ClusterNames}}

NoRequest == [organization |-> NotFound, cluster |-> NotFound]
NoOutcome == Outcome(<<>>, 0, <<>>, NoError)
NoHelper == [name |-> "none", paramName |-> ""]

(***************************************************************************)
(* The process                                                             *)
(***************************************************************************)
Init ==
    /\ pc = "main"
    /\ flags \in [produce : BOOLEAN, consumer : BOOLEAN, server : BOOLEAN]
    /\ fatal = "nil"
    /\ lastRequest = NoRequest /\ helper = NoHelper /\ outcome = NoOutcome
    /\ storageOpen = 0 /\ connOpen = 0 /\ subOpen = 0
    /\ newIn = NoNewInput
    /\ newRet = [consumer |-> "nil", err |-> "nil", panic |-> FALSE]
    /\ msg = NilMsg
    /\ consumed = 0
    /\ streamEnded = FALSE
    /\ delivered = <<>> /\ processed = <<>> /\ writes = <<>>
    /\ closeCalls = <<>>
    /\ closeRet = "none"
    /\ exitStatus = Running

consumerVars ==
    <<storageOpen, connOpen, subOpen, newIn, newRet, msg, consumed, streamEnded,
      delivered, processed, writes, closeCalls, closeRet>>

\* the case of startService's switch that the flags select
Selected(f) ==
    CASE f.produce -> "produce"
      [] ~f.produce /\ f.consumer -> "consumer"
      [] ~f.produce /\ ~f.consumer /\ f.server -> "server"
      [] OTHER -> "none"

\* main and startService up to the call of the selected command; without a
\* command startService returns ExitStatusNoCommand and main exits with it
StartService ==
    /\ pc = "main"
    /\ LET sel == Selected(flags) IN
       IF sel = "none"
       THEN pc' = "exited" /\ exitStatus' = ExitStatusNoCommand
       ELSE /\ pc' = CASE sel = "produce" -> "produce"
                        [] sel = "consumer" -> "boot"
                        [] sel = "server" -> "server_boot"
            /\ UNCHANGED exitStatus
    /\ UNCHANGED <<consumerVars, flags, fatal, serverVars>>

\* produceMessages, and the return of startService and main after it
ProduceMessages ==
    /\ pc = "produce"
    /\ \E err \in {"nil", "ProduceError"} :
          IF err # "nil"
          THEN exitStatus' = LogFatalStatus /\ fatal' = err
          ELSE exitStatus' = ExitStatusOK /\ UNCHANGED fatal
    /\ pc' = "exited"
    /\ UNCHANGED <<consumerVars, flags, serverVars>>

\* startServer up to serverInstance.Start()
ServerOpenStorage ==
    /\ pc = "server_boot"
    /\ \E err \in {"nil", "StorageOpenError"} :
          IF err # "nil"
          THEN /\ pc' = "exited"
               /\ exitStatus' = LogFatalStatus
               /\ fatal' = err
               /\ UNCHANGED storageOpen
          ELSE /\ pc' = "serving"
               /\ storageOpen' = storageOpen + 1
               /\ UNCHANGED <<exitStatus, fatal>>
    /\ UNCHANGED <<connOpen, subOpen, newIn, newRet, msg, consumed, streamEnded,
                   delivered, processed, writes, closeCalls, closeRet>>
    /\ UNCHANGED <<flags, serverVars>>

\* startServer from the return of serverInstance.Start(): with an error,
\* log.Fatal; without, the deferred storage.Close() and the return to main
ServerStop ==
    /\ pc = "serving"
    /\ \E err \in {"nil", "ListenError"} :
          IF err # "nil"
          THEN /\ exitStatus' = LogFatalStatus
               /\ fatal' = err
               /\ UNCHANGED storageOpen
          ELSE /\ exitStatus' = ExitStatusOK
               /\ storageOpen' = storageOpen - 1
               /\ UNCHANGED fatal
    /\ pc' = "exited"
    /\ UNCHANGED <<connOpen, subOpen, newIn, newRet, msg, consumed, streamEnded,
                   delivered, processed, writes, closeCalls, closeRet>>
    /\ UNCHANGED <<flags, serverVars>>

\* a handler of the running server reads the cluster name of a request
ServeReadClusterName ==
    /\ pc = "serving"
    /\ \E req \in Requests :
          /\ lastRequest' = req
          /\ helper' = [name |-> "readClusterName", paramName |-> "cluster"]
          /\ outcome' = readClusterName(req)
    /\ UNCHANGED <<pc, consumerVars, exitStatus, flags, fatal>>

\* a handler of the running server reads the organization ID of a request
ServeReadOrganizationID ==
    /\ pc = "serving"
    /\ \E req \in Requests :
          /\ lastRequest' = req
          /\ helper' = [name |-> "readOrganizationID", paramName |-> "organization"]
          /\ outcome' = readOrganizationID(req)
    /\ UNCHANGED <<pc, consumerVars, exitStatus, flags, fatal>>

\* a handler of the running server reads a positive integer parameter
ServeGetRouterPositiveIntParam ==
    /\ pc = "serving"
    /\ \E req \in Requests, paramName \in {"organization", "cluster", "report"} :
          LET got == GetRouterPositiveIntParam(req, paramName) IN
          /\ lastRequest' = req
          /\ helper' = [name |-> "GetRouterPositiveIntParam", paramName |-> paramName]
          /\ outcome' = Outcome(<<>>, got.value, <<>>, got.err)
    /\ UNCHANGED <<pc, consumerVars, exitStatus, flags, fatal>>

\* startConsumer up to `defer storage.Close()`
OpenStorage ==
    /\ pc = "boot"
    /\ \E err \in {"nil", "StorageOpenError"} :
          IF err # "nil"
          THEN /\ pc' = "exited"
               /\ exitStatus' = LogFatalStatus
               /\ fatal' = err
               /\ UNCHANGED storageOpen
          ELSE /\ pc' = "construct"
               /\ storageOpen' = storageOpen + 1
               /\ UNCHANGED <<exitStatus, fatal>>
    /\ UNCHANGED <<connOpen, subOpen, newIn, newRet, msg, consumed, streamEnded,
                   delivered, processed, writes, closeCalls, closeRet>>
    /\ UNCHANGED <<flags, serverVars>>

\* startConsumer from consumer.New up to `defer consumerInstance.Close()`
Construct ==
    /\ pc = "construct"
    /\ \E in \in NewInputs :
          LET r == New(in) IN
          /\ newIn' = in
          /\ newRet' = [consumer |-> r.consumer, err |-> r.err, panic |-> r.panic]
          /\ connOpen' = connOpen + r.conn
          /\ subOpen' = subOpen + r.sub
          /\ IF r.panic
             THEN pc' = "unwind_storage" /\ UNCHANGED <<exitStatus, fatal>>
             ELSE IF r.err # "nil"
             THEN pc' = "exited" /\ exitStatus' = LogFatalStatus /\ fatal' = r.err
             ELSE pc' = "waiting" /\ UNCHANGED <<exitStatus, fatal>>
    /\ UNCHANGED <<storageOpen, msg, consumed, streamEnded, delivered, processed,
                   writes, closeCalls, closeRet>>
    /\ UNCHANGED <<flags, serverVars>>

\* Start: msg := <-consumer.PartitionConsumer.Messages()
StartReceive(payloads, max) ==
    /\ pc = "waiting"
    /\ \/ /\ Len(delivered) < max
          /\ \E p \in payloads :
                /\ msg' = Message(Len(delivered) + 1, p)
                /\ delivered' = Append(delivered, p)
          /\ UNCHANGED streamEnded
       \/ /\ msg' = NilMsg
          /\ streamEnded' = TRUE
          /\ UNCHANGED delivered
    /\ pc' = "process"
    /\ UNCHANGED <<storageOpen, connOpen, subOpen, newIn, newRet, consumed,
                   processed, writes, closeCalls, closeRet, exitStatus>>
    /\ UNCHANGED <<flags, fatal, serverVars>>

\* Start returning the error of ProcessMessage to startConsumer (log.Fatal there)
StartProcessStopOnError ==
    /\ pc = "process"
    /\ \E writeErr \in WriteOutcomes :
          LET r == ProcessMessage(msg, writeErr) IN
          IF r.panic
          THEN /\ pc' = "unwind_close"
               /\ UNCHANGED <<processed, writes, consumed, exitStatus>>
          ELSE /\ processed' = Append(processed, [Offset |-> msg.Offset, err |-> r.err])
               /\ writes' = writes \o r.calls
               /\ consumed' = consumed + 1
               /\ IF r.err # "nil"
                  THEN pc' = "exited" /\ exitStatus' = LogFatalStatus
                  ELSE pc' = "waiting" /\ UNCHANGED exitStatus
    /\ UNCHANGED <<storageOpen, connOpen, subOpen, newIn, newRet, msg, streamEnded,
                   delivered, closeCalls, closeRet>>
    /\ UNCHANGED <<flags, fatal, serverVars>>

\* Start handing the message to a goroutine (go consumer.ProcessMessage(msg))
\* whose work is not awaited
StartProcessAsync ==
    /\ pc = "process"
    /\ IF msg.isNil THEN pc' = "unwind_close" ELSE pc' = "waiting"
    /\ consumed' = IF msg.isNil THEN consumed ELSE consumed + 1
    /\ UNCHANGED <<storageOpen, connOpen, subOpen, newIn, newRet, msg, streamEnded,
                   delivered, processed, writes, closeCalls, closeRet, exitStatus>>
    /\ UNCHANGED <<flags, fatal, serverVars>>

\* Start processing the same message again when ProcessMessage returned an error
StartProcessRetry ==
    /\ pc = "process"
    /\ \E writeErr \in WriteOutcomes :
          LET r == ProcessMessage(msg, writeErr) IN
          IF r.panic
          THEN /\ pc' = "unwind_close"
               /\ UNCHANGED <<processed, writes, consumed>>
          ELSE /\ processed' = Append(processed, [Offset |-> msg.Offset, err |-> r.err])
               /\ writes' = writes \o r.calls
               /\ consumed' = IF r.err # "nil" THEN consumed ELSE consumed + 1
               /\ pc' = IF r.err # "nil" THEN "process" ELSE "waiting"
    /\ UNCHANGED <<storageOpen, connOpen, subOpen, newIn, newRet, msg, streamEnded,
                   delivered, closeCalls, closeRet, exitStatus>>
    /\ UNCHANGED <<flags, fatal, serverVars>>

\* Start: the rest of the iteration
StartProcess ==
    /\ pc = "process"
    /\ \E writeErr \in WriteOutcomes :
          LET r == ProcessMessage(msg, writeErr) IN
          IF r.panic
          THEN /\ pc' = "unwind_close"
               /\ UNCHANGED <<processed, writes, consumed>>
          ELSE /\ processed' = Append(processed, [Offset |-> msg.Offset, err |-> r.err])
               /\ writes' = writes \o r.calls
               /\ consumed' = consumed + 1
               /\ pc' = "waiting"
    /\ UNCHANGED <<storageOpen, connOpen, subOpen, newIn, newRet, msg, streamEnded,
                   delivered, closeCalls, closeRet, exitStatus>>
    /\ UNCHANGED <<flags, fatal, serverVars>>

Closed(calls, res) == Cardinality({i \in 1..Len(calls) : calls[i].res = res /\ calls[i].err = "nil"})

\* startConsumer: the deferred consumerInstance.Close() of a panicking Start
DeferredClose ==
    /\ pc = "unwind_close"
    /\ \E subErr \in SubCloseOutcomes, connErr \in ConnCloseOutcomes :
          LET r == Close(subErr, connErr) IN
          /\ closeCalls' = closeCalls \o r.calls
          /\ closeRet' = r.ret
          /\ subOpen' = subOpen - Closed(r.calls, "PartitionConsumer")
          /\ connOpen' = connOpen - Closed(r.calls, "Consumer")
    /\ pc' = "unwind_storage"
    /\ UNCHANGED <<storageOpen, newIn, newRet, msg, consumed, streamEnded,
                   delivered, processed, writes, exitStatus>>
    /\ UNCHANGED <<flags, fatal, serverVars>>

\* startConsumer: the deferred storage.Close() of a panicking New or Start
DeferredStorageClose ==
    /\ pc = "unwind_storage"
    /\ storageOpen' = storageOpen - 1
    /\ pc' = "exited"
    /\ exitStatus' = PanicStatus
    /\ UNCHANGED <<connOpen, subOpen, newIn, newRet, msg, consumed, streamEnded,
                   delivered, processed, writes, closeCalls, closeRet>>
    /\ UNCHANGED <<flags, fatal, serverVars>>

Receive == StartReceive(SamplePayloads, MaxMsgs)

Next ==
    \/ StartService
    \/ ProduceMessages
    \/ ServerOpenStorage
    \/ ServeReadClusterName
    \/ ServeReadOrganizationID
    \/ ServeGetRouterPositiveIntParam
    \/ ServerStop
    \/ OpenStorage
    \/ Construct
    \/ Receive
    \/ StartProcess
    \/ DeferredClose
    \/ DeferredStorageClose

Spec == Init /\ [][Next]_vars

\* a Consumer that New has built, running its loop on any payload shape
InitWide ==
    /\ pc = "waiting"
    /\ flags = [produce |-> FALSE, consumer |-> TRUE, server |-> FALSE]
    /\ fatal = "nil"
    /\ lastRequest = NoRequest /\ helper = NoHelper /\ outcome = NoOutcome
    /\ storageOpen = 1 /\ connOpen = 1 /\ subOpen = 1
    /\ newIn \in {in \in NewInputs : New(in).consumer = "Impl"}
    /\ newRet = [consumer |-> "Impl", err |-> "nil", panic |-> FALSE]
    /\ msg = NilMsg
    /\ consumed = 0
    /\ streamEnded = FALSE
    /\ delivered = <<>> /\ processed = <<>> /\ writes = <<>>
    /\ closeCalls = <<>>
    /\ closeRet = "none"
    /\ exitStatus = Running

ReceiveWide == StartReceive(AllPayloads, MaxWide)

NextWide ==
    \/ ReceiveWide
    \/ StartProcess
    \/ DeferredClose
    \/ DeferredStorageClose

SpecWide == InitWide /\ [][NextWide]_vars

(***************************************************************************)
(* Properties                                                              *)
(***************************************************************************)
\* a payload of the wire format: an object whose three keys are present with
\* the expected primitive types
Decodable(p) ==
    /\ p.top = "object"
    /\ p.OrgID.t = "num" /\ p.ClusterName.t = "str" /\ p.Report.t = "str"

\* a decodable payload that also satisfies the data model
WellFormed(p) == Decodable(p) /\ p.OrgID.n > 0 /\ ParseUUID(p.ClusterName.s)

\* the storage writes made for the message at offset n, in call order
WritesFor(n) == SelectSeq(writes, LAMBDA w : w.Offset = n)

\* the ProcessMessage calls that returned for the message at offset n
ReturnsFor(n) == SelectSeq(processed, LAMBDA r : r.Offset = n)

\* the write w carries the three values of payload p
Carries(w, p) ==
    w.org = p.OrgID.n /\ w.cluster = p.ClusterName.s /\ w.report = p.Report.s

\* C1: for every well-formed message (OrgID o > 0, ClusterName c a valid UUID,
\* Report r) that ProcessMessage has handled, the storage write was called
\* exactly once, with exactly (o, c, r), and when that write succeeded
\* ProcessMessage returned no error.
C1_WellFormedPersistedOnce ==
    \A i \in 1..Len(processed) :
        LET n == processed[i].Offset
            p == delivered[n]
            w == WritesFor(n)
        IN  WellFormed(p) =>
                /\ Len(w) = 1
                /\ Carries(w[1], p)
                /\ (w[1].err = "nil" => processed[i].err = "nil")

C1_Witness ==
    \E i \in 1..Len(processed) :
        /\ WellFormed(delivered[processed[i].Offset])
        /\ processed[i].err = "nil"
        /\ Len(WritesFor(processed[i].Offset)) = 1

\* Start has left its loop
LoopLeft ==
    /\ newRet.consumer = "Impl"
    /\ pc \in {"unwind_close", "unwind_storage", "exited"}

\* ProcessMessage is running on the message at offset n
InFlight(n) == pc = "process" /\ ~msg.isNil /\ msg.Offset = n

\* C2: Start never stops on a processing error. The loop is left only with a
\* nil message in hand (never after a message that ProcessMessage returned
\* for), and after an error for message n a well-formed message n+1, once it
\* is delivered and handled, is written exactly once with its own values and
\* ends with the result of that write.
C2_FaultIsolation ==
    /\ LoopLeft => (msg.isNil /\ Len(processed) = Len(delivered))
    /\ \A n \in 1..(Len(delivered) - 1) :
          LET p == delivered[n + 1]
              w == WritesFor(n + 1)
              r == ReturnsFor(n + 1)
          IN  ( /\ Len(ReturnsFor(n)) > 0
                /\ ReturnsFor(n)[1].err # "nil"
                /\ WellFormed(p)
                /\ ~InFlight(n + 1) ) =>
                  /\ Len(w) = 1 /\ Carries(w[1], p)
                  /\ Len(r) = 1 /\ r[1].err = w[1].err

C2_Witness ==
    \E n \in 1..(Len(processed) - 2) :
        /\ processed[n].err \in {"SyntaxError", "UnmarshalTypeError"}
        /\ processed[n + 1].err = "StorageError"
        /\ WellFormed(delivered[n + 2])
        /\ processed[n + 2].err = "nil"
        /\ pc = "waiting"

\* C3: when the subscription read fails (the stream has ended), then once
\* Start has dealt with that read it has returned an error to its caller:
\* it has not handed the missing message to ProcessMessage and crashed.
C3_TransportFailureReturnsError ==
    (streamEnded /\ pc # "process") =>
        /\ pc = "start_returned"
        /\ exitStatus # PanicStatus

\* C4: Close closes the partition subscription first; when that fails Close
\* returns that error and the connection's close is not called; when it
\* succeeds the connection's close is called exactly once, after it, and its
\* result is what Close returns.
C4_CloseOrder ==
    IF closeRet = "none" THEN closeCalls = <<>>
    ELSE /\ Len(closeCalls) >= 1
         /\ closeCalls[1].res = "PartitionConsumer"
         /\ closeCalls[1].err # "nil" =>
                (Len(closeCalls) = 1 /\ closeRet = closeCalls[1].err)
         /\ closeCalls[1].err = "nil" =>
                /\ Len(closeCalls) = 2
                /\ closeCalls[2].res = "Consumer"
                /\ closeRet = closeCalls[2].err

C4_Witness ==
    /\ closeRet = "SubCloseError"
    /\ closeCalls = <<[res |-> "PartitionConsumer", err |-> "SubCloseError"]>>

Keys == {"OrgID", "ClusterName", "Report"}

\* the JSON type the wire format expects of a key
Expected(k) == IF k = "OrgID" THEN "num" ELSE "str"

\* an object that lacks exactly the key k: the other two are present with the
\* expected primitive types
LacksOnly(p, k) ==
    /\ p.top = "object"
    /\ p[k].t = "absent"
    /\ \A j \in Keys \ {k} : p[j].t = Expected(j)

MissingError(k) ==
    CASE k = "OrgID" -> "Missing required attribute 'OrgID'"
      [] k = "ClusterName" -> "Missing required attribute 'ClusterName'"
      [] k = "Report" -> "Missing required attribute 'Report'"

\* C5: for every payload that lacks exactly one of OrgID, ClusterName, Report
\* (the other two decoding with the expected types), ProcessMessage returns
\* the validation error naming exactly that key, and the storage write is
\* not called for that message.
C5_MissingKeyNamed ==
    \A i \in 1..Len(processed) : \A k \in Keys :
        LacksOnly(delivered[processed[i].Offset], k) =>
            /\ processed[i].err = MissingError(k)
            /\ WritesFor(processed[i].Offset) = <<>>

C5_Witness ==
    \E i \in 1..Len(processed) :
        /\ LacksOnly(delivered[processed[i].Offset], "Report")
        /\ processed[i].err = "Missing required attribute 'Report'"
        /\ writes = <<>>

DecodeErrors == {"SyntaxError", "UnmarshalTypeError"}

\* not a valid object with the expected primitive types: not an object, or an
\* object with a key whose value has another type (null included)
Malformed(p) ==
    \/ p.top # "object"
    \/ \E k \in Keys : p[k].t \notin {"absent", Expected(k)}

\* malformed for another reason than a JSON null: not JSON, a top-level value
\* that is neither an object nor null, or a key whose value is neither null
\* nor of the expected type
MalformedNotByNull(p) ==
    \/ p.top \notin {"object", "null"}
    \/ p.top = "object" /\ \E k \in Keys : p[k].t \notin {"absent", "null", Expected(k)}

\* the first key, in the order OrgID, ClusterName, Report, that is absent or null
FirstUnset(p) ==
    IF p.top = "null" \/ p.OrgID.t \in {"absent", "null"} THEN "OrgID"
    ELSE IF p.ClusterName.t \in {"absent", "null"} THEN "ClusterName"
    ELSE "Report"

\* C6 as stated: for every structurally malformed payload ProcessMessage
\* returns a decode error, and the storage write is not called.
C6_MalformedIsDecodeError ==
    \A i \in 1..Len(processed) :
        Malformed(delivered[processed[i].Offset]) =>
            /\ processed[i].err \in DecodeErrors
            /\ WritesFor(processed[i].Offset) = <<>>

\* C6 amended: no malformed payload reaches the storage write, and
\* ProcessMessage returns an error for it. The error is a decode error,
\* whatever keys are missing, when the payload is malformed for another reason
\* than a JSON null; a payload malformed only by a null (the top-level value
\* null, or a key whose value is null) is decoded without error, the null
\* counting as an absent key, and gets the validation error naming the first
\* key that is absent or null.
C6_MalformedNeverPersisted ==
    \A i \in 1..Len(processed) :
        LET p == delivered[processed[i].Offset] IN
        /\ Malformed(p) =>
              /\ processed[i].err # "nil"
              /\ WritesFor(processed[i].Offset) = <<>>
        /\ MalformedNotByNull(p) => processed[i].err \in DecodeErrors
        /\ (Malformed(p) /\ ~MalformedNotByNull(p)) =>
              processed[i].err = MissingError(FirstUnset(p))

\* a payload with a key of the wrong type and another key missing was handled
C6_Witness ==
    \E i \in 1..Len(processed) :
        LET p == delivered[processed[i].Offset] IN
        /\ p.top = "object"
        /\ p.OrgID.t = "absent"
        /\ p.ClusterName.t = "num"
        /\ processed[i].err = "UnmarshalTypeError"
        /\ writes = <<>>

\* C7: every record handed to the storage write has OrgID > 0 and a
\* ClusterName that is a syntactically valid UUID.
C7_WritesSatisfyDataModel ==
    \A i \in 1..Len(writes) : writes[i].org > 0 /\ ParseUUID(writes[i].cluster)

\* New has been called
Constructed == newIn # NoNewInput

\* C8: New fails with an error and returns no Consumer when the broker is
\* unreachable, when the topic has no partitions, and when the subscription
\* setup fails; in none of the three does it crash.
C8_ConstructionFailsCleanly ==
    ( /\ Constructed
      /\ \/ newIn.connErr # "nil"
         \/ newIn.partsErr # "nil"
         \/ Len(newIn.partitions) = 0
         \/ newIn.subErr # "nil" ) =>
        /\ ~newRet.panic
        /\ newRet.err # "nil"
        /\ newRet.consumer = "nil"

\* the write w carries what the wire format of payload p holds
FromPayload(w, p) == Decodable(p) /\ Carries(w, p)

\* C9: the storage writes occur in the order of delivery, each made from the
\* message of its offset, and processing is sequential: the messages are
\* handled one at a time in the order of their offsets, and a message is
\* received only when every message before it has been handled.
C9_OrderPreserved ==
    /\ \A i, j \in 1..Len(writes) : i < j => writes[i].Offset < writes[j].Offset
    /\ \A i \in 1..Len(writes) :
          /\ writes[i].Offset \in 1..Len(delivered)
          /\ FromPayload(writes[i], delivered[writes[i].Offset])
    /\ \A i \in 1..Len(processed) : processed[i].Offset = i
    /\ Len(delivered) =
          Len(processed) + (IF pc = "process" /\ ~msg.isNil THEN 1 ELSE 0)
    /\ (pc = "process" /\ ~msg.isNil) =>
          (msg.Offset = Len(delivered) /\ msg.Value = delivered[Len(delivered)])

C9_Witness ==
    /\ Len(writes) = 2
    /\ writes[1].org = 2 /\ writes[2].org = 1
    /\ writes[1].Offset = 1 /\ writes[2].Offset = 3
    /\ pc = "waiting"

\* C10: every delivered message is handed to ProcessMessage exactly once
\* (not yet, while it is the one in hand) and never again whatever the
\* outcome, and the storage write is called at most once for it: exactly once
\* when it decodes and validates, never otherwise.
C10_AtMostOnce ==
    /\ consumed = Len(processed)
    /\ \A n \in 1..Len(delivered) :
          /\ Len(ReturnsFor(n)) = (IF InFlight(n) THEN 0 ELSE 1)
          /\ Len(WritesFor(n)) =
                (IF ~InFlight(n) /\ Decodable(delivered[n]) THEN 1 ELSE 0)
    /\ \A i \in 1..Len(processed) : processed[i].Offset \in 1..Len(delivered)
    /\ \A i \in 1..Len(writes) : writes[i].Offset \in 1..Len(delivered)

\* a failed write, a rejected message and a stored one, each handled once
C10_Witness ==
    /\ Len(processed) = 3
    /\ processed[1].err = "StorageError"
    /\ processed[2].err = "Missing required attribute 'OrgID'"
    /\ processed[3].err = "nil"
    /\ Len(writes) = 2
    /\ delivered[1] = delivered[3]

\* ProcessMessage has returned for the message at offset n
Handled(n) == n \in 1..Len(delivered) /\ ~InFlight(n)

AbsentKeys(p) == {k \in Keys : p[k].t = "absent"}

\* the first of a set of keys in the order OrgID, ClusterName, Report
FirstKey(ks) ==
    IF "OrgID" \in ks THEN "OrgID"
    ELSE IF "ClusterName" \in ks THEN "ClusterName" ELSE "Report"

\* C16: when a structurally valid payload (an object whose present keys have
\* the expected types) lacks more than one required key, the error returned
\* is the single validation error of the first missing key in the order
\* OrgID, ClusterName, Report, and nothing is written.
C16_FirstMissingKeyNamed ==
    \A i \in 1..Len(processed) :
        LET p == delivered[processed[i].Offset] IN
        ( /\ p.top = "object"
          /\ Cardinality(AbsentKeys(p)) > 1
          /\ \A k \in Keys \ AbsentKeys(p) : p[k].t = Expected(k) ) =>
            /\ processed[i].err = MissingError(FirstKey(AbsentKeys(p)))
            /\ WritesFor(processed[i].Offset) = <<>>

\* ClusterName and Report both missing: ClusterName is the one named
C16_Witness ==
    \E i \in 1..Len(processed) :
        LET p == delivered[processed[i].Offset] IN
        /\ p.top = "object"
        /\ AbsentKeys(p) = {"ClusterName", "Report"}
        /\ p.OrgID.t = "num"
        /\ processed[i].err = "Missing required attribute 'ClusterName'"

\* the statuses of the responses the helper called last has written
SentStatuses == {outcome.sent[i].status : i \in 1..Len(outcome.sent)}

\* C12: readOrganizationID answers with status 400 exactly when
\* GetRouterPositiveIntParam("organization") failed with a RouterParsingError
\* (a value that is no number, or not a positive one), with status 500 for
\* every other error (the parameter is missing), and in both cases returns
\* an error; for a positive integer it writes no response and returns it.
C12_OrganizationStatus ==
    helper.name = "readOrganizationID" =>
        LET got == GetRouterPositiveIntParam(lastRequest, "organization")
            org == lastRequest.organization
        IN  /\ Len(outcome.sent) <= 1
            /\ (StatusBadRequest \in SentStatuses) <=> (got.err.kind = "RouterParsingError")
            /\ (StatusInternalServerError \in SentStatuses)
                  <=> (got.err.kind \notin {"nil", "RouterParsingError"})
            /\ (outcome.sent = <<>>) <=> (got.err = NoError)
            /\ (outcome.err = NoError) <=> (got.err = NoError)
            /\ got.err = NoError => (outcome.int = got.value /\ outcome.int > 0)
            /\ ~org.found => SentStatuses = {StatusInternalServerError}
            /\ (org.found /\ org.value \in {<<"a", "b", "c">>, <<"0">>, <<"-", "5">>})
                  => SentStatuses = {StatusBadRequest}
            /\ (org.found /\ org.value = <<"4", "2">>)
                  => (outcome.sent = <<>> /\ outcome.int = 42)

C12_Witness ==
    /\ helper.name = "readOrganizationID"
    /\ lastRequest.organization = Found(<<"-", "5">>)
    /\ SentStatuses = {StatusBadRequest}
    /\ outcome.err.kind = "errorString"

\* the strings of the model that are base-10 integers of 64 bits, and their values
IntegerStrings ==
    {<<"4", "2">>, <<"1">>, <<"0">>, <<"-", "5">>, <<"+", "7">>, <<"0", "0", "7">>,
     <<"-", "0">>}

IntegerOf(s) ==
    CASE s = <<"4", "2">> -> 42
      [] s = <<"1">> -> 1
      [] s = <<"0">> -> 0
      [] s = <<"-", "5">> -> 0 - 5
      [] s = <<"+", "7">> -> 7
      [] s = <<"0", "0", "7">> -> 7
      [] s = <<"-", "0">> -> 0

\* C13: GetRouterPositiveIntParam(name) ends in exactly one of four ways,
\* decided in this order: the parameter is absent -> RouterMissingParamError
\* of that name; its value is no base-10 integer of 64 bits -> RouterParsingError
\* "integer expected"; the integer is <= 0 -> RouterParsingError "positive
\* integer expected"; otherwise the integer is returned with no error.
C13_PositiveIntClassification ==
    helper.name = "GetRouterPositiveIntParam" =>
        LET name == helper.paramName
            param == IF name \in DOMAIN lastRequest THEN lastRequest[name] ELSE NotFound
            e == outcome.err
        IN  IF ~param.found
            THEN e = RouterMissingParamError(name) /\ outcome.int = 0
            ELSE IF param.value \notin IntegerStrings
            THEN /\ e.kind = "RouterParsingError" /\ e.paramName = name
                 /\ e.errString = "integer expected"
                 /\ outcome.int = 0
            ELSE IF IntegerOf(param.value) <= 0
            THEN /\ e.kind = "RouterParsingError" /\ e.paramName = name
                 /\ e.errString = "positive integer expected"
                 /\ outcome.int = 0
            ELSE e = NoError /\ outcome.int = IntegerOf(param.value)

C13_Witness ==
    /\ helper = [name |-> "GetRouterPositiveIntParam", paramName |-> "organization"]
    /\ lastRequest.organization = Found(<<"0">>)
    /\ outcome.err.errString = "positive integer expected"

\* C14: readClusterName never writes a 400 response. An absent cluster
\* parameter and a present value that is no UUID both get one 500 response and
\* an error (for the latter with the message "Cluster name format is
\* invalid"); a valid UUID is returned unchanged and no response is written.
C14_ClusterNameStatus ==
    helper.name = "readClusterName" =>
        LET c == lastRequest.cluster IN
        /\ StatusBadRequest \notin SentStatuses
        /\ ~c.found =>
              /\ Len(outcome.sent) = 1
              /\ SentStatuses = {StatusInternalServerError}
              /\ outcome.err.kind = "errorString"
        /\ (c.found /\ ~ParseUUID(c.value)) =>
              /\ outcome.sent = <<Response(StatusInternalServerError,
                                           "Cluster name format is invalid", NoError)>>
              /\ outcome.err = ErrorsNew("Cluster name format is invalid")
        /\ (c.found /\ ParseUUID(c.value)) =>
              /\ outcome.sent = <<>>
              /\ outcome.str = c.value
              /\ outcome.err = NoError
        /\ (c.found /\ c.value \in {NotAUUID, <<>>, Rep("a", 36)})
              => SentStatuses = {StatusInternalServerError}
        /\ (c.found /\ c.value = ClusterA) => outcome.str = ClusterA

C14_Witness ==
    /\ helper.name = "readClusterName"
    /\ lastRequest.cluster = Found(NotAUUID)
    /\ SentStatuses = {StatusInternalServerError}
    /\ outcome.err.message = "Cluster name format is invalid"

\* the status the constants of aggregator.go assign to a failure of the command
ErrorStatusOf(command) ==
    CASE command = "produce" -> ExitStatusProducerError
      [] command = "consumer" -> ExitStatusConsumerError
      [] command = "server" -> ExitStatusServerError
      [] OTHER -> ExitStatusNoCommand

\* C15: a process whose command failed (storage cannot be opened, the
\* consumer cannot be constructed, the producer or the server reports an
\* error) exits with the status of that command's error, 3 for the consumer,
\* 2 for the producer and 4 for the server, never with ExitStatusNoCommand.
C15_FailureExitStatus ==
    (pc = "exited" /\ fatal # "nil") =>
        /\ exitStatus = ErrorStatusOf(Selected(flags))
        /\ exitStatus # ExitStatusNoCommand

\* C17: when a process started in consumer mode has ended, the storage it
\* opened has been closed, and the Consumer it constructed has had its Close
\* invoked.
C17_OwnerReleases ==
    (pc = "exited" /\ Selected(flags) = "consumer") =>
        /\ storageOpen = 0
        /\ newRet.consumer = "Impl" => closeRet # "none"

\* C18: after a failed New no more connections and subscriptions are open
\* than before the call.
C18_FailedNewHoldsNothing ==
    (Constructed /\ newRet.err # "nil") => (connOpen = 0 /\ subOpen = 0)

=============================================================================
